---- MODULE Spec2Model ----
(***************************************************************************)
(* Model of the image-tagging batch pipeline of src/js/scripts.js          *)
(* (tagGalleryAI): start-up checks, the sequential loop of run(), the      *)
(* retry loop of analyzeImage(), the validity test, the choice of a free   *)
(* destination name, the copy and the gallery document.                    *)
(*                                                                         *)
(* Strings are sequences of one-character strings, so that trimming,       *)
(* lower-casing, safeName, extname and the building of file names are      *)
(* computed as the code computes them.                                     *)
(***************************************************************************)
EXTENDS Integers, Sequences, FiniteSets, TLC

\* ------------------------------------------------------------------ bounds
MaxFiles == 2
MaxRuns == 2

\* --------------------------------------------------------- program constants
MaxAttempts == 3
BackoffBaseMs == 1000
RateLimitStatus == 429

\* ------------------------------------------------------------------ strings
Lowers == << "a","b","c","d","e","f","g","h","i","j","k","l","m",
             "n","o","p","q","r","s","t","u","v","w","x","y","z" >>
Uppers == << "A","B","C","D","E","F","G","H","I","J","K","L","M",
             "N","O","P","Q","R","S","T","U","V","W","X","Y","Z" >>
Digits == << "0","1","2","3","4","5","6","7","8","9" >>

Range(s) == { s[i] : i \in 1..Len(s) }

ToLowerChar(c) ==
  IF \E i \in 1..Len(Uppers) : Uppers[i] = c
  THEN Lowers[CHOOSE i \in 1..Len(Uppers) : Uppers[i] = c]
  ELSE c

toLowerCase(s) == [i \in 1..Len(s) |-> ToLowerChar(s[i])]

IsAlnum(c) == c \in Range(Lowers) \cup Range(Uppers) \cup Range(Digits)

\* s without its leading and trailing characters that are in chars
StripEnds(s, chars) ==
  LET keep == { i \in 1..Len(s) : s[i] \notin chars }
  IN  IF keep = {} THEN << >>
      ELSE SubSeq(s, CHOOSE i \in keep : \A j \in keep : i <= j,
                     CHOOSE i \in keep : \A j \in keep : i >= j)

\* String.prototype.trim, for the white space the replies hold
trim(s) == StripEnds(s, {" "})

\* replace(/[^a-z0-9]+/gi, "_"): every maximal run of other characters -> "_"
RECURSIVE CollapseFrom(_, _)
CollapseFrom(s, i) ==
  IF i > Len(s) THEN << >>
  ELSE IF IsAlnum(s[i]) THEN << s[i] >> \o CollapseFrom(s, i + 1)
  ELSE IF i > 1 /\ ~IsAlnum(s[i - 1]) THEN CollapseFrom(s, i + 1)
  ELSE << "_" >> \o CollapseFrom(s, i + 1)

\* .replace(/^_+|_+$/g, "").toLowerCase() of the collapsed string
safeName(str) == toLowerCase(StripEnds(CollapseFrom(str, 1), {"_"}))

\* the decimal digits of a template-literal number
RECURSIVE Decimal(_)
Decimal(n) ==
  IF n < 10 THEN << Digits[n + 1] >>
  ELSE Decimal(n \div 10) \o << Digits[(n % 10) + 1] >>

\* path.extname: from the last "." on; "" when there is none or it is first
extname(file) ==
  LET dots == { i \in 1..Len(file) : file[i] = "." }
  IN  IF dots = {} THEN << >>
      ELSE LET last == CHOOSE i \in dots : \A j \in dots : i >= j
           IN  IF last = 1 THEN << >> ELSE SubSeq(file, last, Len(file))

EndsWith(s, suffix) ==
  /\ Len(s) >= Len(suffix)
  /\ SubSeq(s, Len(s) - Len(suffix) + 1, Len(s)) = suffix

ImageExtensions ==
  { << ".", "j", "p", "g" >>, << ".", "j", "p", "e", "g" >>,
    << ".", "p", "n", "g" >>, << ".", "g", "i", "f" >> }

\* /\.(jpg|jpeg|png|gif)$/i.test(f)
IsImageName(f) == \E e \in ImageExtensions : EndsWith(toLowerCase(f), e)

RECURSIVE FilterImages(_)
FilterImages(names) ==
  IF names = << >> THEN << >>
  ELSE (IF IsImageName(Head(names)) THEN << Head(names) >> ELSE << >>)
       \o FilterImages(Tail(names))

\* /rate/i.test(msg)
MatchesRate(msg) ==
  \E i \in 1..Len(msg) :
    /\ i + 3 <= Len(msg)
    /\ toLowerCase(SubSeq(msg, i, i + 3)) = << "r", "a", "t", "e" >>

Unknown == << "u", "n", "k", "n", "o", "w", "n" >>
Vehicle == << "v", "e", "h", "i", "c", "l", "e" >>

\* ------------------------------------------------------------------- inputs
\* names a listing of the input directory can hold (three images, one not)
InputNames ==
  { << "a", ".", "j", "p", "g" >>, << "b", ".", "j", "p", "g" >>,
    << "c", ".", "p", "n", "g" >>, << "n", ".", "t", "x", "t" >> }

\* fs.readdirSync order is the file system's: any order of any names
Listings ==
  { l \in UNION { [1..n -> InputNames] : n \in 0..MaxFiles } :
      \A i, j \in 1..Len(l) : i # j => l[i] # l[j] }

\* a file a previous use left in the output directory
OldContent == << "o", "l", "d" >>
OldName ==
  << "k", "i", "a", "_", "r", "i", "o", "_", "6", "9", "_", "1",
     ".", "j", "p", "g" >>
EmptyDir == [n \in {} |-> OldContent]
InitialOutputDirs == { EmptyDir, [n \in {OldName} |-> OldContent] }

\* a field of the parsed reply: a JSON string or a value of another type
Str(s) == [isString |-> TRUE, s |-> s]
NotStr == [isString |-> FALSE, s |-> << >>]

Json(y, mk, md, d) ==
  [isNull |-> FALSE, year |-> y, make |-> mk, model |-> md, description |-> d]
JsonNull ==
  [isNull |-> TRUE, year |-> NotStr, make |-> NotStr, model |-> NotStr,
   description |-> NotStr]

\* replies of the model, as JSON.parse returns them
JsonKia ==
  Json(Str(<< "6", "9" >>), Str(<< " ", "K", "i", "a" >>),
       Str(<< "R", "i", "o" >>), Str(<< "a", "\"" >>))
\* its base name is the base name of JsonKia followed by "_1"
JsonKiaOne ==
  Json(Str(<< "1" >>), Str(<< "k", "i", "a" >>),
       Str(<< "R", "i", "o", " ", "6", "9" >>), Str(<< >>))
JsonUnknownMake ==
  Json(Str(<< >>), Str(<< "U", "n", "k", "n", "o", "w", "n" >>),
       Str(<< "R", "i", "o" >>), Str(<< >>))
JsonVehicleModel ==
  Json(Str(<< >>), Str(<< "K", "i", "a" >>),
       Str(<< "V", "E", "H", "I", "C", "L", "E" >>), Str(<< >>))
JsonNumberMake ==
  Json(Str(<< >>), NotStr, Str(<< "R", "i", "o" >>), Str(<< >>))
JsonBlankModel ==
  Json(Str(<< >>), Str(<< "K", "i", "a" >>), Str(<< " " >>), Str(<< >>))

RateMessage == << "R", "a", "t", "e" >>
OtherMessage == << "B", "a", "d" >>
NoStatus == 0

\* what one call of openai.responses.create can produce: a response with no
\* text, with text that is not JSON, with JSON text, or a thrown error
Outcome(k, v, st, m) == [kind |-> k, value |-> v, status |-> st, message |-> m]
NoText == Outcome("empty", JsonNull, NoStatus, << >>)
NotJson == Outcome("garbage", JsonNull, NoStatus, << >>)
JsonText(v) == Outcome("json", v, NoStatus, << >>)
Thrown(st, m) == Outcome("error", JsonNull, st, m)

\* the outcomes the runs of the whole pipeline draw from
PipelineOutcomes ==
  { NoText, JsonText(JsonKia), JsonText(JsonUnknownMake),
    JsonText(JsonVehicleModel), JsonText(JsonNumberMake),
    JsonText(JsonBlankModel), Thrown(RateLimitStatus, OtherMessage),
    Thrown(500, OtherMessage) }

\* the outcomes a single run draws from
ServiceOutcomes ==
  PipelineOutcomes
  \cup { NotJson, JsonText(JsonKiaOne), JsonText(JsonNull),
         Thrown(NoStatus, RateMessage), Thrown(NoStatus, OtherMessage),
         Thrown(RateLimitStatus, RateMessage) }

\* ------------------------------------------------------------ analyzeImage
NoResult == [tag |-> "none"]
\* what a function that runs off its end returns
Undefined == [tag |-> "undefined"]
TagResult(y, mk, md, d, raw) ==
  [tag |-> "object", year |-> y, make |-> mk, model |-> md,
   description |-> d, raw |-> raw]
NoRaw == ""
CleanedText == "cleaned"
EmptyTagResult(raw) == TagResult(<< >>, << >>, << >>, << >>, raw)

\* typeof parsed.f === "string" ? parsed.f.trim() : ""
Coerce(field) == IF field.isString THEN trim(field.s) ELSE << >>

Returns(r) == [retry |-> FALSE, wait |-> 0, result |-> r]
Retries(ms) == [retry |-> TRUE, wait |-> ms, result |-> NoResult]

\* variant: every error is retried, not only a rate limit
RetryAnyError(code, msg, att) == att < MaxAttempts

\* variant: the final attempt is retried too (attempt <= 3)
RetryOnFinalAttempt(code, msg, att) ==
  (code = RateLimitStatus \/ MatchesRate(msg)) /\ att <= MaxAttempts

\* (code === 429 || /rate/i.test(msg)) && attempt < 3
RetryAllowed(code, msg, att) ==
  (code = RateLimitStatus \/ MatchesRate(msg)) /\ att < MaxAttempts

\* variant: attempt * 2 in place of attempt ** 2
BackoffTwice(att) == BackoffBaseMs * (att * 2)

\* 1000 * attempt ** 2
Backoff(att) == BackoffBaseMs * (att ^ 2)

\* the catch block of the retry loop
Caught(code, msg, att) ==
  IF RetryAllowed(code, msg, att) THEN Retries(Backoff(att))
  ELSE Returns(EmptyTagResult(NoRaw))

\* reading a property of null throws inside the try block
NullTypeError ==
  << "C", "a", "n", "n", "o", "t", " ", "r", "e", "a", "d" >>

\* the body of one iteration of the retry loop, given what the call produced
HandleOutcome(o, att) ==
  CASE o.kind = "error"   -> Caught(o.status, o.message, att)
    [] o.kind = "empty"   -> Returns(EmptyTagResult(NoRaw))
    [] o.kind = "garbage" -> Returns(EmptyTagResult(CleanedText))
    [] o.kind = "json"    ->
         IF o.value.isNull THEN Caught(NoStatus, NullTypeError, att)
         ELSE Returns(TagResult(Coerce(o.value.year), Coerce(o.value.make),
                                Coerce(o.value.model),
                                Coerce(o.value.description), CleanedText))

\* --------------------------------------------------------------------- run
\* variant: the sentinels are compared without toLowerCase()
hasValidDataCaseSensitive(r) ==
  /\ r.make # << >>
  /\ r.model # << >>
  /\ r.make # Unknown
  /\ r.model # Vehicle

\* make && model && make.toLowerCase() !== "unknown"
\*              && model.toLowerCase() !== "vehicle"
hasValidData(r) ==
  /\ r.make # << >>
  /\ r.model # << >>
  /\ toLowerCase(r.make) # Unknown
  /\ toLowerCase(r.model) # Vehicle

\* `${cleanMake}_${cleanModel}_${cleanYear}`
BaseName(r) ==
  safeName(r.make) \o << "_" >> \o safeName(r.model) \o << "_" >>
    \o safeName(r.year)

\* `${baseName}${ext}` and `${baseName}_${counter}${ext}`
PlainName(baseName, ext) == baseName \o ext
NumberedName(baseName, ext, counter) ==
  baseName \o << "_" >> \o Decimal(counter) \o ext

\* the while loop: the first numbered name, from counter on, not in dir
RECURSIVE FreeNumbered(_, _, _, _)
FreeNumbered(baseName, ext, counter, dir) ==
  IF NumberedName(baseName, ext, counter) \in dir
  THEN FreeNumbered(baseName, ext, counter + 1, dir)
  ELSE NumberedName(baseName, ext, counter)

\* variant: an if in place of the while (one existence test only)
DestNameTestedOnce(baseName, ext, dir) ==
  IF PlainName(baseName, ext) \in dir
  THEN NumberedName(baseName, ext, 1)
  ELSE PlainName(baseName, ext)

\* variant: the counter starts one too high
DestNameCounterAhead(baseName, ext, dir) ==
  IF PlainName(baseName, ext) \in dir
  THEN FreeNumbered(baseName, ext, 2, dir)
  ELSE PlainName(baseName, ext)

\* variant: no existence test at all
DestNameUntested(baseName, ext, dir) == PlainName(baseName, ext)

\* the name the copy is written under, given the names dir holds
DestName(baseName, ext, dir) ==
  IF PlainName(baseName, ext) \in dir
  THEN FreeNumbered(baseName, ext, 1, dir)
  ELSE PlainName(baseName, ext)

\* [year, make, model].filter(Boolean).join(" ")
RECURSIVE JoinWords(_)
JoinWords(words) ==
  IF words = << >> THEN << >>
  ELSE IF Head(words) = << >> THEN JoinWords(Tail(words))
  ELSE LET rest == JoinWords(Tail(words))
       IN  IF rest = << >> THEN Head(words)
           ELSE Head(words) \o << " " >> \o rest

Title(r) == JoinWords(<< r.year, r.make, r.model >>)

\* (description || "").replace(/"/g, "&quot;")
RECURSIVE EscapeQuotes(_)
EscapeQuotes(s) ==
  IF s = << >> THEN << >>
  ELSE (IF Head(s) = "\"" THEN << "&", "q", "u", "o", "t", ";" >>
        ELSE << Head(s) >>) \o EscapeQuotes(Tail(s))

\* the output directory as seen from the directory of gallery.html
OutputDirRel ==
  << "p", "r", "o", "c", "e", "s", "s", "e", "d", "_",
     "g", "a", "l", "l", "e", "r", "y", "/" >>

RelPath(name) == OutputDirRel \o name

\* one <article> of the gallery
Article(r, name) ==
  [year |-> r.year, make |-> r.make, model |-> r.model,
   desc |-> EscapeQuotes(r.description), img |-> RelPath(name),
   title |-> Title(r), text |-> r.description]

NoDocument == [exists |-> FALSE, articles |-> << >>]
Document(articles) == [exists |-> TRUE, articles |-> articles]

\* ------------------------------------------------------------------- state
VARIABLES
  inDir,        \* the listing of images/gallery, in enumeration order
  outDir,       \* images/processed_gallery: file name -> content
  htmlFile,     \* images/gallery.html on disk
  pc,           \* where the process is
  exitCode,     \* -1 while it runs
  runNo,        \* launches so far
  started,      \* this launch passed the start-up checks
  files,        \* run(): the filtered listing
  idx,          \* run(): position of the for-of loop in files
  html,         \* run(): the articles appended to the html string so far
  attempt,      \* analyzeImage(): the loop counter
  result,       \* what analyzeImage() returned to run()
  waits,        \* the setTimeout delays of the current invocation
  outcomes,     \* what each service call of the current invocation produced
  status,       \* per image of this run: its place in the life cycle
  validCount,   \* images of this run whose result passed hasValidData
  copied,       \* the fs.copyFileSync calls of this run, in order
  preDir,       \* outDir as it was when this run started
  initDir,      \* outDir as it was before the first run
  runsDone,     \* runs that reached the end of run()
  firstValid,   \* validCount of the first such run
  same          \* every launch so far reached the end of run(), each with
                \* the same number of valid images

vars ==
  << inDir, outDir, htmlFile, pc, exitCode, runNo, started, files, idx, html,
     attempt, result, waits, outcomes, status, validCount, copied, preDir,
     initDir, runsDone, firstValid, same >>

Running == -1

Init ==
  /\ inDir \in Listings
  /\ outDir \in InitialOutputDirs
  /\ initDir = outDir
  /\ preDir = outDir
  /\ htmlFile = NoDocument
  /\ pc = "idle"
  /\ exitCode = Running
  /\ runNo = 0
  /\ started = FALSE
  /\ files = << >>
  /\ idx = 1
  /\ html = << >>
  /\ attempt = 1
  /\ result = NoResult
  /\ waits = << >>
  /\ outcomes = << >>
  /\ status = << >>
  /\ validCount = 0
  /\ copied = << >>
  /\ runsDone = 0
  /\ firstValid = 0
  /\ same = TRUE

\* process.exit(1): at start-up, or from run().catch
ExitFailure ==
  /\ pc' = "exited"
  /\ exitCode' = 1
  /\ same' = FALSE

\* node scripts.js: the start-up checks and run() up to its for-of loop
Launch ==
  /\ pc \in {"idle", "exited"}
  /\ runNo < MaxRuns
  /\ runNo' = runNo + 1
  /\ preDir' = outDir
  /\ idx' = 1
  /\ html' = << >>
  /\ attempt' = 1
  /\ result' = NoResult
  /\ waits' = << >>
  /\ outcomes' = << >>
  /\ validCount' = 0
  /\ copied' = << >>
  /\ \E hasKey \in BOOLEAN, inputDirExists \in BOOLEAN :
       IF hasKey /\ inputDirExists
       THEN /\ started' = TRUE
            /\ files' = FilterImages(inDir)
            /\ status' = [i \in 1..Len(files') |-> "pending"]
            /\ pc' = "loop"
            /\ exitCode' = Running
            /\ same' = same
       ELSE /\ started' = FALSE
            /\ files' = << >>
            /\ status' = << >>
            /\ ExitFailure
  /\ UNCHANGED << inDir, outDir, htmlFile, initDir, runsDone, firstValid >>

\* for (const file of files): analyzeImage(src) up to its retry loop;
\* fs.readFileSync in toDataURL throws when the entry cannot be read
EnterImage ==
  /\ pc = "loop"
  /\ idx <= Len(files)
  /\ \E readable \in BOOLEAN :
       IF readable
       THEN /\ status' = [status EXCEPT ![idx] = "classifying"]
            /\ attempt' = 1
            /\ pc' = "call"
            /\ UNCHANGED << exitCode, same >>
       ELSE /\ ExitFailure
            /\ UNCHANGED << status, attempt >>
  /\ UNCHANGED << inDir, outDir, htmlFile, runNo, started, files, idx, html,
                  result, waits, outcomes, validCount, copied, preDir,
                  initDir, runsDone, firstValid >>

\* await openai.responses.create(...) and the rest of the loop body
CallServiceWith(serviceOutcomes) ==
  /\ pc = "call"
  /\ \E o \in serviceOutcomes :
       LET h == HandleOutcome(o, attempt)
       IN  /\ outcomes' = Append(outcomes, o)
           /\ IF h.retry
              THEN /\ waits' = Append(waits, h.wait)
                   /\ pc' = "wait"
                   /\ UNCHANGED result
              ELSE /\ result' = h.result
                   /\ pc' = "returned"
                   /\ UNCHANGED waits
  /\ UNCHANGED << inDir, outDir, htmlFile, exitCode, runNo, started, files,
                  idx, html, attempt, status, validCount, copied, preDir,
                  initDir, runsDone, firstValid, same >>

\* the timer fires; continue; attempt++; attempt <= 3 or the loop is left
BackoffElapsed ==
  /\ pc = "wait"
  /\ attempt' = attempt + 1
  /\ IF attempt + 1 <= MaxAttempts
     THEN /\ pc' = "call"
          /\ UNCHANGED result
     ELSE /\ pc' = "returned"
          /\ result' = Undefined
  /\ UNCHANGED << inDir, outDir, htmlFile, exitCode, runNo, started, files,
                  idx, html, waits, outcomes, status, validCount, copied,
                  preDir, initDir, runsDone, firstValid, same >>

\* const { year, make, model, description } = await analyzeImage(src);
\* destructuring undefined throws; an invalid result skips the image
Classified ==
  /\ pc = "returned"
  /\ waits' = << >>
  /\ outcomes' = << >>
  /\ IF result.tag # "object"
     THEN /\ ExitFailure
          /\ result' = NoResult
          /\ UNCHANGED << validCount, status, idx >>
     ELSE /\ UNCHANGED << exitCode, same >>
          /\ IF hasValidData(result)
             THEN /\ status' = [status EXCEPT ![idx] = "valid"]
                  /\ validCount' = validCount + 1
                  /\ pc' = "place"
                  /\ UNCHANGED << result, idx >>
             ELSE /\ status' = [status EXCEPT ![idx] = "skipped"]
                  /\ pc' = "loop"
                  /\ idx' = idx + 1
                  /\ result' = NoResult
                  /\ UNCHANGED validCount
  /\ UNCHANGED << inDir, outDir, htmlFile, runNo, started, files, html,
                  attempt, copied, preDir, initDir, runsDone, firstValid >>

\* the destination name, then fs.copyFileSync(src, dest), which can throw
PlaceOutput ==
  /\ pc = "place"
  /\ LET baseName == BaseName(result)
         ext == extname(files[idx])
         newFileName == DestName(baseName, ext, DOMAIN outDir)
     IN  \E copies \in BOOLEAN :
           IF copies
           THEN /\ outDir' = (newFileName :> files[idx]) @@ outDir
                /\ copied' = Append(copied,
                     [src |-> files[idx], baseName |-> baseName, ext |-> ext,
                      dest |-> newFileName])
                /\ status' = [status EXCEPT ![idx] = "copied"]
                /\ pc' = "render"
                /\ UNCHANGED << exitCode, same >>
           ELSE /\ ExitFailure
                /\ UNCHANGED << outDir, copied, status >>
  /\ UNCHANGED << inDir, htmlFile, runNo, started, files, idx, html, attempt,
                  result, waits, outcomes, validCount, preDir, initDir,
                  runsDone, firstValid >>

\* the second hasValidData test (its return leaves run() without writing the
\* document), then html += <article>, and the loop goes on
RenderArticle ==
  /\ pc = "render"
  /\ result' = NoResult
  /\ IF ~hasValidData(result)
     THEN /\ pc' = "exited"
          /\ exitCode' = 0
          /\ same' = FALSE
          /\ UNCHANGED << html, status, idx >>
     ELSE /\ html' = Append(html, Article(result, copied[Len(copied)].dest))
          /\ status' = [status EXCEPT ![idx] = "rendered"]
          /\ idx' = idx + 1
          /\ pc' = "loop"
          /\ UNCHANGED << exitCode, same >>
  /\ UNCHANGED << inDir, outDir, htmlFile, runNo, started, files, attempt,
                  waits, outcomes, validCount, copied, preDir, initDir,
                  runsDone, firstValid >>

\* after the loop: fs.writeFileSync(OUTPUT_HTML, ...), and the process ends
WriteGallery ==
  /\ pc = "loop"
  /\ idx > Len(files)
  /\ htmlFile' = Document(html)
  /\ pc' = "exited"
  /\ exitCode' = 0
  /\ runsDone' = runsDone + 1
  /\ firstValid' = IF runsDone = 0 THEN validCount ELSE firstValid
  /\ same' = (same /\ (runsDone = 0 \/ validCount = firstValid))
  /\ UNCHANGED << inDir, outDir, runNo, started, files, idx, html, attempt,
                  result, waits, outcomes, status, validCount, copied,
                  preDir, initDir >>

CallService == CallServiceWith(PipelineOutcomes)

Next ==
  \/ Launch
  \/ EnterImage
  \/ CallService
  \/ BackoffElapsed
  \/ Classified
  \/ PlaceOutput
  \/ RenderArticle
  \/ WriteGallery

Spec == Init /\ [][Next]_vars

\* a single launch, with every outcome of the service
LaunchOnce == runNo = 0 /\ Launch

CallAnyService == CallServiceWith(ServiceOutcomes)

NextOnce ==
  \/ LaunchOnce
  \/ EnterImage
  \/ CallAnyService
  \/ BackoffElapsed
  \/ Classified
  \/ PlaceOutput
  \/ RenderArticle
  \/ WriteGallery

SpecOnce == Init /\ [][NextOnce]_vars

\* ------------------------------------------------------------- properties
AllFieldsEmpty(r) ==
  /\ r.tag = "object"
  /\ r.year = << >>
  /\ r.make = << >>
  /\ r.model = << >>
  /\ r.description = << >>

AnsweredWith429(o) == o.kind = "error" /\ o.status = 429

Always429 ==
  /\ outcomes # << >>
  /\ \A i \in 1..Len(outcomes) : AnsweredWith429(outcomes[i])

\* C1: an invocation whose every service call is answered with HTTP 429
\* makes exactly 3 calls, waits 1000 ms after the first and 4000 ms after
\* the second, does not wait after the third, and returns the all-empty
\* result.
C1_Always429GivesThreeCalls ==
  Always429 =>
    /\ Len(outcomes) <= 3
    /\ pc = "wait" => waits = SubSeq(<< 1000, 4000 >>, 1, Len(outcomes))
    /\ Len(outcomes) = 3 => pc = "returned"
    /\ pc = "returned" =>
         /\ Len(outcomes) = 3
         /\ waits = << 1000, 4000 >>
         /\ AllFieldsEmpty(result)

C1_Witness ==
  /\ pc = "returned"
  /\ Always429
  /\ Len(outcomes) = 3
  /\ AllFieldsEmpty(result)

\* a rate-limit signal: HTTP 429, or a message that matches the pattern
RateLimitSignal(o) ==
  o.kind = "error" /\ (o.status = 429 \/ MatchesRate(o.message))

EndsInvocation(o) ==
  \/ o.kind \in {"empty", "garbage"}
  \/ o.kind = "error" /\ ~RateLimitSignal(o)

\* C2: within one invocation every service call but the last failed with a
\* rate-limit signal; a call that ends in another error, in a response
\* without text or in text that is not JSON is the last call, and the
\* invocation returns with year, make, model and description empty.
C2_RetryOnlyAfterRateLimit ==
  /\ \A i \in 1..(Len(outcomes) - 1) : RateLimitSignal(outcomes[i])
  /\ \A i \in 1..Len(outcomes) :
       EndsInvocation(outcomes[i]) =>
         /\ i = Len(outcomes)
         /\ pc = "returned"
         /\ AllFieldsEmpty(result)

C2_Witness ==
  /\ pc = "returned"
  /\ Len(outcomes) = 2
  /\ RateLimitSignal(outcomes[1])
  /\ outcomes[2].kind = "garbage"
  /\ AllFieldsEmpty(result)

\* C10: an invocation makes at most 3 service calls and what it returns to
\* run() is always an object with the fields year, make, model and
\* description: the end of the function is never reached and run() never
\* destructures undefined.
C10_EveryExitReturnsAnObject ==
  /\ Len(outcomes) <= 3
  /\ result # Undefined
  /\ pc = "returned" =>
       /\ result.tag = "object"
       /\ {"year", "make", "model", "description"} \subseteq DOMAIN result

C10_Witness ==
  /\ pc = "returned"
  /\ Len(outcomes) = 3
  /\ RateLimitSignal(outcomes[3])
  /\ result.tag = "object"

Terminal == {"rendered", "skipped"}

\* the names the output directory held just before the j-th copy of this run
HeldBefore(j) == DOMAIN preDir \cup { copied[i].dest : i \in 1..(j - 1) }

\* every file the output directory held when this run started is still
\* there, with the content it had
EarlierFilesUnchanged ==
  \A n \in DOMAIN preDir : n \in DOMAIN outDir /\ outDir[n] = preDir[n]

\* C3 (as claimed): a run that passed the start-up checks ends with exit
\* code 0, with the document written and every scanned image processed,
\* whatever happened to single images.
C3_BatchAlwaysCompletes ==
  (pc = "exited" /\ started) =>
    /\ exitCode = 0
    /\ htmlFile = Document(html)
    /\ \A i \in 1..Len(files) : status[i] \in Terminal

\* the articles of the document this run wrote (none when it wrote none)
ProducedArticles ==
  IF exitCode = 0 /\ htmlFile.exists THEN htmlFile.articles ELSE << >>

\* C4 (as claimed): when a run has ended, in whatever way, the files it
\* copied are exactly the files the articles of the document it wrote
\* refer to, one article per file.
C4_CopiesMatchGallery ==
  (pc = "exited" /\ started) =>
    /\ Len(ProducedArticles) = Len(copied)
    /\ \A j \in 1..Len(copied) :
         ProducedArticles[j].img = RelPath(copied[j].dest)

\* C5: the destination of every copy names no file the output directory
\* holds at that moment, so the destinations of one run are pairwise
\* distinct, and the files the directory held before the run are unchanged.
C5_NeverOverwrites ==
  /\ \A j \in 1..Len(copied) : copied[j].dest \notin HeldBefore(j)
  /\ \A i, j \in 1..Len(copied) : i # j => copied[i].dest # copied[j].dest
  /\ EarlierFilesUnchanged
  /\ \A j \in 1..Len(copied) :
       copied[j].dest \in DOMAIN outDir /\ outDir[copied[j].dest] = copied[j].src

C5_Witness ==
  /\ pc = "exited"
  /\ runNo = 2
  /\ Len(copied) = 2
  /\ DOMAIN preDir # {}
  /\ \A j \in 1..2 :
       copied[j].dest # PlainName(copied[j].baseName, copied[j].ext)

\* C6 (as claimed): of two images of a run with the same base name, the
\* output directory being empty when the run starts, the first is written
\* as <base><ext> and the second as <base>_1<ext>.
C6_SecondGetsSuffixOne ==
  \A i, j \in 1..Len(copied) :
    ( /\ DOMAIN preDir = {}
      /\ i < j
      /\ copied[i].baseName = copied[j].baseName
      /\ \A k \in 1..(j - 1) :
           copied[k].baseName = copied[j].baseName => k = i )
    => /\ copied[i].dest = PlainName(copied[i].baseName, copied[i].ext)
       /\ copied[j].dest = NumberedName(copied[j].baseName, copied[j].ext, 1)

\* C6 (amended): every image is written under its own extension as
\* <base><ext> when the output directory holds no file of that name, and
\* otherwise as <base>_k<ext> for the smallest k >= 1 that names no file
\* the directory holds; so of two images with the same base name and the
\* same extension, the second is written as <base>_1<ext> when the first
\* was written as <base><ext> and <base>_1<ext> is free.
C6_SmallestFreeSuffix ==
  /\ \A j \in 1..Len(copied) :
       LET c == copied[j]
           plain == PlainName(c.baseName, c.ext)
       IN  /\ c.ext = extname(c.src)
           /\ IF plain \notin HeldBefore(j) THEN c.dest = plain
              ELSE \E k \in 1..(Cardinality(HeldBefore(j)) + 1) :
                     /\ c.dest = NumberedName(c.baseName, c.ext, k)
                     /\ c.dest \notin HeldBefore(j)
                     /\ \A m \in 1..(k - 1) :
                          NumberedName(c.baseName, c.ext, m) \in HeldBefore(j)
  /\ \A i, j \in 1..Len(copied) :
       ( /\ i < j
         /\ copied[i].baseName = copied[j].baseName
         /\ copied[i].ext = copied[j].ext
         /\ copied[i].dest = PlainName(copied[i].baseName, copied[i].ext)
         /\ NumberedName(copied[j].baseName, copied[j].ext, 1)
              \notin HeldBefore(j) )
       => copied[j].dest = NumberedName(copied[j].baseName, copied[j].ext, 1)

C6_Witness ==
  /\ Len(copied) = 2
  /\ copied[1].baseName = copied[2].baseName
  /\ copied[1].ext = copied[2].ext
  /\ copied[1].dest = PlainName(copied[1].baseName, copied[1].ext)
  /\ copied[2].dest = NumberedName(copied[2].baseName, copied[2].ext, 1)
  /\ copied[2].dest \in DOMAIN outDir

\* valid as the claim defines it
ClaimedValid(r) ==
  /\ r.make # << >>
  /\ r.model # << >>
  /\ toLowerCase(r.make) # Unknown
  /\ toLowerCase(r.model) # Vehicle

Count(states) == Cardinality({ i \in 1..Len(status) : status[i] \in states })

C8_EveryImageReachesATerminalState ==
  /\ \A i \in 1..Len(status) :
       /\ i < idx => status[i] \in Terminal
       /\ i > idx => status[i] = "pending"
  /\ (pc = "exited" /\ started) =>
       \A i \in 1..Len(files) : status[i] \in Terminal

\* C9: when every launch so far has reached the end of run() with the same
\* n valid images, after k launches the output directory holds k*n files
\* more than before the first; every run adds one file per valid image
\* and leaves the files of earlier runs unchanged.
C9_RerunsAddNumberedCopies ==
  /\ (pc = "exited" /\ same /\ runsDone >= 1) =>
       /\ runsDone = runNo
       /\ Cardinality(DOMAIN outDir)
            = Cardinality(DOMAIN initDir) + runsDone * firstValid
  /\ (pc = "exited" /\ exitCode = 0) =>
       /\ Cardinality(DOMAIN outDir) = Cardinality(DOMAIN preDir) + validCount
       /\ Len(copied) = validCount
  /\ EarlierFilesUnchanged

C9_Witness ==
  /\ pc = "exited"
  /\ same
  /\ runsDone = 2
  /\ firstValid = 2
  /\ Cardinality(DOMAIN outDir) = Cardinality(DOMAIN initDir) + 4
====
